---- MODULE Spec2Model ----
(***************************************************************************)
(* Cloth dynamics of bounce: b3Cloth (particles, body contacts, Step) and  *)
(* b3ClothSolver (constraint assembly, linear system, MPCG).               *)
(*                                                                         *)
(* float32 values are modelled as exact rationals <<n, d>> in lowest terms *)
(* with d > 0; every non-finite float (inf, NaN) is the one value NaN.     *)
(*                                                                         *)
(* The arithmetic is written as functions, which take their arguments by   *)
(* value; The({e : v \in {d}}) is e with v bound to the value of d.        *)
(***************************************************************************)
EXTENDS Integers, Sequences, FiniteSets, TLC

\* ------------------------------------------------------------------------
\* Bounds of the model
\* ------------------------------------------------------------------------

\* Number of operations of the cloth interface explored from construction.
MaxOps == 3

\* Number of operations explored on a cloth that lives in a world.
MaxContactOps == 4

\* Number of contact refreshes explored over every outcome of TestSphere.
MaxRefreshes == 3

\* ------------------------------------------------------------------------
\* float32
\* ------------------------------------------------------------------------

\* The element of a singleton.
The(S) == CHOOSE r \in S : TRUE

\* The function f of domain 1..n as the tuple of its values.
Tuple(f) == f \o << >>

Abs(n) == IF n < 0 THEN 0 - n ELSE n

Gcd[a \in Nat, b \in Nat] == IF b = 0 THEN a ELSE Gcd[b, a % b]

Float == Int \X Int

\* The non-finite float.
NaN == <<0, 0>>

b3IsValid(a) == a[2] # 0

Norm[n \in Int, d \in Int] ==
  IF d = 0 THEN NaN
  ELSE LET g == IF d < 0 THEN 0 - Gcd[Abs(n), Abs(d)] ELSE Gcd[Abs(n), Abs(d)]
       IN <<n \div g, d \div g>>

R(n) == <<n, 1>>

Zero == R(0)

One == R(1)

\* The sum over the least common denominator.
FAdd[a \in Float, b \in Float] ==
  IF a[2] = 0 \/ b[2] = 0 THEN NaN
  ELSE IF a[2] = b[2] THEN Norm[a[1] + b[1], a[2]]
  ELSE LET g == Gcd[a[2], b[2]]
       IN Norm[a[1] * (b[2] \div g) + b[1] * (a[2] \div g), (a[2] \div g) * b[2]]

FNeg[a \in Float] == <<0 - a[1], a[2]>>

FSub[a \in Float, b \in Float] == FAdd[a, FNeg[b]]

\* inf * 0 and NaN * 0 are NaN.
FMul[a \in Float, b \in Float] ==
  IF a[2] = 0 \/ b[2] = 0 THEN NaN
  ELSE IF a[1] = 0 \/ b[1] = 0 THEN Zero
  ELSE LET g1 == Gcd[Abs(a[1]), b[2]]
           g2 == Gcd[Abs(b[1]), a[2]]
       IN <<(a[1] \div g1) * (b[1] \div g2), (a[2] \div g2) * (b[2] \div g1)>>

\* x / 0 is inf or NaN.
FDiv[a \in Float, b \in Float] ==
  IF a[2] = 0 \/ b[2] = 0 \/ b[1] = 0 THEN NaN
  ELSE FMul[a, IF b[1] < 0 THEN <<0 - b[2], 0 - b[1]>> ELSE <<b[2], b[1]>>]

\* Comparisons with a non-finite operand are false.
FLt(a, b) == a[2] # 0 /\ b[2] # 0 /\ a[1] * b[2] < b[1] * a[2]

FLe(a, b) == a[2] # 0 /\ b[2] # 0 /\ a[1] * b[2] <= b[1] * a[2]

\* ------------------------------------------------------------------------
\* b3Vec3, b3Mat33
\* ------------------------------------------------------------------------

Vec3s == Float \X Float \X Float

\* A b3Mat33 is indexed [row][column].
Mat33s == Vec3s \X Vec3s \X Vec3s

Vec3(x, y, z) == <<R(x), R(y), R(z)>>

Vec3_zero == Vec3(0, 0, 0)

VAdd[a \in Vec3s, b \in Vec3s] == <<FAdd[a[1], b[1]], FAdd[a[2], b[2]], FAdd[a[3], b[3]]>>

VSub[a \in Vec3s, b \in Vec3s] == <<FSub[a[1], b[1]], FSub[a[2], b[2]], FSub[a[3], b[3]]>>

VNeg[a \in Vec3s] == <<FNeg[a[1]], FNeg[a[2]], FNeg[a[3]]>>

VScale[s \in Float, a \in Vec3s] == <<FMul[s, a[1]], FMul[s, a[2]], FMul[s, a[3]]>>

b3Dot[a \in Vec3s, b \in Vec3s] ==
  FAdd[FAdd[FMul[a[1], b[1]], FMul[a[2], b[2]]], FMul[a[3], b[3]]]

b3Cross[a \in Vec3s, b \in Vec3s] ==
  << FSub[FMul[a[2], b[3]], FMul[a[3], b[2]]],
     FSub[FMul[a[3], b[1]], FMul[a[1], b[3]]],
     FSub[FMul[a[1], b[2]], FMul[a[2], b[1]]] >>

Mat33_zero == <<Vec3_zero, Vec3_zero, Vec3_zero>>

b3Diagonal3[x \in Float, y \in Float, z \in Float] ==
  <<<<x, Zero, Zero>>, <<Zero, y, Zero>>, <<Zero, Zero, z>>>>

b3Diagonal[s \in Float] == b3Diagonal3[s, s, s]

Mat33_identity == b3Diagonal[One]

b3Outer[a \in Vec3s, b \in Vec3s] == <<VScale[a[1], b], VScale[a[2], b], VScale[a[3], b]>>

MAdd[A \in Mat33s, B \in Mat33s] == <<VAdd[A[1], B[1]], VAdd[A[2], B[2]], VAdd[A[3], B[3]]>>

MSub[A \in Mat33s, B \in Mat33s] == <<VSub[A[1], B[1]], VSub[A[2], B[2]], VSub[A[3], B[3]]>>

MScale[s \in Float, A \in Mat33s] == <<VScale[s, A[1]], VScale[s, A[2]], VScale[s, A[3]]>>

b3Transpose[A \in Mat33s] ==
  << <<A[1][1], A[2][1], A[3][1]>>,
     <<A[1][2], A[2][2], A[3][2]>>,
     <<A[1][3], A[2][3], A[3][3]>> >>

MMulV[A \in Mat33s, v \in Vec3s] == <<b3Dot[A[1], v], b3Dot[A[2], v], b3Dot[A[3], v]>>

b3Det[A \in Mat33s] == b3Dot[A[1], b3Cross[A[2], A[3]]]

\* ------------------------------------------------------------------------
\* b3DenseVec3, b3DiagMat33, b3SymMat33 / b3SparseSymMat33
\* ------------------------------------------------------------------------

\* A dense vector is a sequence of b3Vec3, a diagonal matrix a sequence of
\* b3Mat33, a symmetric matrix M[i][j] holds its upper triangle (i <= j).
DenseVec3s == Seq(Vec3s)

DiagMat33s == Seq(Mat33s)

SymMat33s == Seq(Seq(Mat33s))

DenseZero(n) == Tuple([i \in 1..n |-> Vec3_zero])

DAdd[a \in DenseVec3s, b \in DenseVec3s] == Tuple([i \in 1..Len(a) |-> VAdd[a[i], b[i]]])

DSub[a \in DenseVec3s, b \in DenseVec3s] == Tuple([i \in 1..Len(a) |-> VSub[a[i], b[i]]])

DScale[s \in Float, a \in DenseVec3s] == Tuple([i \in 1..Len(a) |-> VScale[s, a[i]]])

DenseDotUpTo[a \in DenseVec3s, b \in DenseVec3s, n \in Nat] ==
  IF n = 0 THEN Zero ELSE FAdd[DenseDotUpTo[a, b, n - 1], b3Dot[a[n], b[n]]]

DenseDot[a \in DenseVec3s, b \in DenseVec3s] == DenseDotUpTo[a, b, Len(a)]

DiagIdentity(n) == Tuple([i \in 1..n |-> Mat33_identity])

DiagSub[A \in DiagMat33s, B \in DiagMat33s] == Tuple([i \in 1..Len(A) |-> MSub[A[i], B[i]]])

DiagMul[A \in DiagMat33s, v \in DenseVec3s] == Tuple([i \in 1..Len(v) |-> MMulV[A[i], v[i]]])

SymZero(n) == Tuple([i \in 1..n |-> Tuple([j \in 1..n |-> Mat33_zero])])

\* Element (i, j) of a symmetric matrix: the lower triangle mirrors the upper.
SymAt(A, i, j) == IF i <= j THEN A[i][j] ELSE b3Transpose[A[j][i]]

SymRowMul[A \in SymMat33s, v \in DenseVec3s, row \in Nat, column \in Nat] ==
  IF column = 0 THEN Vec3_zero
  ELSE VAdd[SymRowMul[A, v, row, column - 1], MMulV[SymAt(A, row, column), v[column]]]

b3Mul[A \in SymMat33s, v \in DenseVec3s] ==
  Tuple([row \in 1..Len(v) |-> SymRowMul[A, v, row, Len(v)]])

\* ------------------------------------------------------------------------
\* b3ClothSolver::Solve(x, iterations, A, b, S, z, y): MPCG
\* ------------------------------------------------------------------------

tolerance == <<1, 10000>>

max_iterations == 100

\* a <= t * t * c for the tolerance t = 1 / T, without leaving the integers
\* of the model checker: a * T * T <= c.
LeTol2(a, c) ==
  LET T2 == tolerance[2] * tolerance[2]
      an == a[1] * c[2]
      cn == c[1] * a[2]
  IN /\ a[2] # 0
     /\ c[2] # 0
     /\ IF an = 0 THEN cn >= 0
        ELSE IF an < 0
             THEN cn >= 0 \/ (Abs(cn) + Abs(an) - 1) \div Abs(an) <= T2
             ELSE cn > 0 /\ T2 <= cn \div an

\* The preconditioner: the inverse of the diagonal of each diagonal block.
InvertDiagonal[D \in Mat33s] ==
  b3Diagonal3[FDiv[One, D[1][1]], FDiv[One, D[2][2]], FDiv[One, D[3][3]]]

Inv_P[A \in SymMat33s] == Tuple([i \in 1..Len(A) |-> InvertDiagonal[A[i][i]]])

\* The assertions on the diagonal blocks (Sylvester criterion, non-zero pivots).
PreconditionerAsserts(A) ==
  \A i \in 1..Len(A) :
    /\ FLt(Zero, b3Det[A[i][i]])
    /\ A[i][i][1][1] # Zero
    /\ A[i][i][2][2] # Zero
    /\ A[i][i][3][3] # Zero

\* (I - S) * z
Unfiltered[S \in DiagMat33s, z \in DenseVec3s] == DiagMul[DiagSub[DiagIdentity(Len(z)), S], z]

\* The locals of the solve before the first pass of the main loop.
MPCG_Begin(A, b, S, z, y) ==
  LET inv_P == Inv_P[A]
      x     == DAdd[DiagMul[S, y], Unfiltered[S, z]]
      b_hat == DiagMul[S, DSub[b, b3Mul[A, Unfiltered[S, z]]]]
      r     == DiagMul[S, DSub[b, b3Mul[A, x]]]
      p     == DiagMul[S, DiagMul[inv_P, r]]
  IN [inv_P     |-> inv_P,
      x         |-> x,
      r         |-> r,
      p         |-> p,
      b_delta   |-> DenseDot[b_hat, DiagMul[inv_P, b_hat]],
      delta_new |-> DenseDot[r, p],
      iteration |-> 0]

\* The divergence check one pass late.
AtCap_Late(st) == st.iteration >= max_iterations + 1

\* Divergence check.
AtCap(st) == st.iteration >= max_iterations

\* Convergence check.
Converged(st) == LeTol2(st.delta_new, st.b_delta)

\* One pass of the main loop after its checks, s = S * (A * p) being computed.
LoopPass(st, S, s) ==
  LET alpha     == FDiv[st.delta_new, DenseDot[st.p, s]]
      r         == DSub[st.r, DScale[alpha, s]]
      h         == DiagMul[st.inv_P, r]
      delta_new == DenseDot[r, h]
      beta      == FDiv[delta_new, st.delta_new]
  IN [st EXCEPT !.x = DAdd[st.x, DScale[alpha, st.p]],
                !.r = r,
                !.p = DiagMul[S, DAdd[h, DScale[beta, st.p]]],
                !.delta_new = delta_new,
                !.iteration = st.iteration + 1]

\* One pass of the main loop after its checks.
MPCG_Iterate(st, A, S) == The({LoopPass(st, S, s) : s \in {DiagMul[S, b3Mul[A, st.p]]}})

\* What the main loop does next with the locals st.
LoopExit(st, asserts) ==
  IF AtCap(st) THEN "break"
  ELSE IF asserts /\ ~b3IsValid(st.delta_new) THEN "assert"
  ELSE IF Converged(st) THEN "break"
  ELSE "pass"

\* The main loop run to its end; asserts tells whether B3_ASSERT is compiled
\* in, and the result carries fault = TRUE when an assertion failed.
RECURSIVE MPCG_Loop(_, _, _, _)
MPCG_Loop(st, A, S, asserts) ==
  IF LoopExit(st, asserts) = "pass"
  THEN The({MPCG_Loop(next, A, S, asserts) : next \in {MPCG_Iterate(st, A, S)}})
  ELSE [st |-> st, fault |-> LoopExit(st, asserts) = "assert"]

MPCG_Solve(A, b, S, z, y, asserts) ==
  IF asserts /\ ~PreconditionerAsserts(A)
  THEN [st |-> MPCG_Begin(A, b, S, z, y), fault |-> TRUE]
  ELSE The({MPCG_Loop(st, A, S, asserts) : st \in {MPCG_Begin(A, b, S, z, y)}})

\* ------------------------------------------------------------------------
\* b3ClothMesh and the topology scans of the b3Cloth constructor
\* ------------------------------------------------------------------------

\* Vertices are numbered from 1 (the code numbers them from 0).  A mesh is
\* [vertices, triangles, sewingLines]: positions, index triples, index pairs.

\* The mesh of the cloth: one triangle in the plane y = 0.
ClothMesh ==
  [vertices    |-> <<Vec3(0, 0, 0), Vec3(2, 0, 0), Vec3(0, 0, 3)>>,
   triangles   |-> << <<1, 2, 3>> >>,
   sewingLines |-> << >>]

\* def.density
ClothDensity == R(3)

b3NextIndex(i) == IF i + 1 < 3 THEN i + 1 ELSE 0

\* The search that tells two edges apart by their direction.
EdgeKnown_Directed(uniqueEdges, t1v1, t1v2) ==
  \E j \in 1..Len(uniqueEdges) :
    uniqueEdges[j].v1 = t1v1 /\ uniqueEdges[j].v2 = t1v2

EdgeKnown(uniqueEdges, t1v1, t1v2) ==
  \E j \in 1..Len(uniqueEdges) :
    \/ uniqueEdges[j].v1 = t1v1 /\ uniqueEdges[j].v2 = t1v2
    \/ uniqueEdges[j].v2 = t1v1 /\ uniqueEdges[j].v1 = t1v2

\* The scan over the 3 * triangleCount directed edges, e = 3 * i + j1.
RECURSIVE UniqueEdgeScan(_, _, _)
UniqueEdgeScan(m, e, uniqueEdges) ==
  IF e >= 3 * Len(m.triangles) THEN uniqueEdges
  ELSE LET edge == [v1 |-> m.triangles[(e \div 3) + 1][(e % 3) + 1],
                    v2 |-> m.triangles[(e \div 3) + 1][b3NextIndex(e % 3) + 1]]
       IN The({UniqueEdgeScan(m, e + 1, next) :
                 next \in {IF EdgeKnown(uniqueEdges, edge.v1, edge.v2) THEN uniqueEdges
                           ELSE Append(uniqueEdges, edge)}})

b3FindUniqueEdges(m) == UniqueEdgeScan(m, 0, << >>)

\* The adjacency test that takes an edge met in the same winding.
MatchingEdges_SameWinding(m, j, t1v1, t1v2) ==
  {j2 \in 0..2 : /\ t1v1 = m.triangles[j][j2 + 1]
                 /\ t1v2 = m.triangles[j][b3NextIndex(j2) + 1]}

\* The edges j2 of triangle j that run against edge (t1v1, t1v2).
MatchingEdges(m, j, t1v1, t1v2) ==
  {j2 \in 0..2 : /\ t1v1 = m.triangles[j][b3NextIndex(j2) + 1]
                 /\ t1v2 = m.triangles[j][j2 + 1]}

\* The shared edge found for edge j1 of triangle i against edge j2 of triangle j.
SharedEdge(m, i, j1, j, j2) ==
  [v1   |-> m.triangles[i][j1 + 1],
   v2   |-> m.triangles[i][b3NextIndex(j1) + 1],
   nsv1 |-> m.triangles[i][b3NextIndex(b3NextIndex(j1)) + 1],
   nsv2 |-> m.triangles[j][b3NextIndex(b3NextIndex(j2)) + 1]]

\* The inner loops over triangle j > i and its edges j2; the break leaves
\* the loop over j2 at the first match.
RECURSIVE SharedEdgeInner(_, _, _, _, _)
SharedEdgeInner(m, i, j1, j, sharedEdges) ==
  IF j > Len(m.triangles) THEN sharedEdges
  ELSE LET hits == MatchingEdges(m, j, m.triangles[i][j1 + 1],
                                 m.triangles[i][b3NextIndex(j1) + 1])
           j2   == CHOOSE h \in hits : \A g \in hits : h <= g
       IN The({SharedEdgeInner(m, i, j1, j + 1, next) :
                 next \in {IF hits = {} THEN sharedEdges
                           ELSE Append(sharedEdges, SharedEdge(m, i, j1, j, j2))}})

RECURSIVE SharedEdgeScan(_, _, _)
SharedEdgeScan(m, e, sharedEdges) ==
  IF e >= 3 * Len(m.triangles) THEN sharedEdges
  ELSE The({SharedEdgeScan(m, e + 1, next) :
              next \in {SharedEdgeInner(m, (e \div 3) + 1, e % 3, (e \div 3) + 2,
                                        sharedEdges)}})

b3FindSharedEdges(m) == SharedEdgeScan(m, 0, << >>)

\* Integer square root, and the square root of a float (exact on squares).
Isqrt[n \in Nat, k \in Nat] == IF (k + 1) * (k + 1) > n THEN k ELSE Isqrt[n, k + 1]

b3Sqrt[a \in Float] ==
  IF a[2] = 0 \/ a[1] < 0 THEN NaN ELSE Norm[Isqrt[a[1], 0], Isqrt[a[2], 0]]

b3Length[v \in Vec3s] == b3Sqrt[b3Dot[v, v]]

b3Area[v1 \in Vec3s, v2 \in Vec3s, v3 \in Vec3s] ==
  FMul[<<1, 2>>, b3Length[b3Cross[VSub[v2, v1], VSub[v3, v1]]]]

TriangleArea(m, i) ==
  b3Area[m.vertices[m.triangles[i][1]], m.vertices[m.triangles[i][2]],
         m.vertices[m.triangles[i][3]]]

\* The mass triangle i gives to each of its vertices.
TriangleShare(m, rho, i) == FMul[<<1, 3>>, FMul[rho, TriangleArea(m, i)]]

\* The mass of the particle of vertex v after triangles 1..i.
RECURSIVE VertexMass(_, _, _, _)
VertexMass(m, rho, v, i) ==
  IF i = 0 THEN Zero
  ELSE FAdd[VertexMass(m, rho, v, i - 1),
            FMul[R(Cardinality({k \in 1..3 : m.triangles[i][k] = v})),
                 TriangleShare(m, rho, i)]]

\* b3Cloth::ComputeMass: the mass and inverse mass of the particle of vertex v.
ComputeMass(m, rho, v) ==
  LET mass == VertexMass(m, rho, v, Len(m.triangles))
  IN [m_mass |-> mass, m_invMass |-> FDiv[One, mass]]

\* The assertions of ComputeMass.
ComputeMassAsserts(m, rho) ==
  /\ \A i \in 1..Len(m.triangles) : FLt(Zero, TriangleArea(m, i))
  /\ \A v \in 1..Len(m.vertices) : FLt(Zero, ComputeMass(m, rho, v).m_mass)

\* ------------------------------------------------------------------------
\* The rigid world seen by the cloth
\* ------------------------------------------------------------------------

\* m_world->GetBodyList(): the bodies in enumeration order, each with its
\* type and its shape list in enumeration order.
WorldBodies ==
  << [type |-> "e_dynamicBody", shapes |-> <<1>>],
     [type |-> "e_staticBody",  shapes |-> <<2, 3>>] >>

RECURSIVE FlattenBodies(_)
FlattenBodies(k) ==
  IF k = 0 THEN << >>
  ELSE FlattenBodies(k - 1) \o
       [n \in 1..Len(WorldBodies[k].shapes) |->
          [shape |-> WorldBodies[k].shapes[n], bodyType |-> WorldBodies[k].type]]

\* The (body, shape) pairs in the order the two nested loops visit them.
ShapeOrder == FlattenBodies(Len(WorldBodies))

Shapes == {ShapeOrder[k].shape : k \in 1..Len(ShapeOrder)}

\* b3TestSphereOutput, with hit the return value of b3Shape::TestSphere.
NoHit == [hit |-> FALSE, separation |-> Zero, normal |-> Vec3_zero]

Hit(sep) == [hit |-> TRUE, separation |-> R(sep), normal |-> Vec3(0, 1, 0)]

TestSphereOutputs == {NoHit, Hit(0), Hit(0 - 1), Hit(0 - 2)}

\* What TestSphere returns for each shape at one position of the spheres.
Scenes == [Shapes -> TestSphereOutputs]

NoScene == [sh \in Shapes |-> NoHit]

\* Nothing in reach, and the second static shape penetrating.
ContactScenes == {NoScene, [NoScene EXCEPT ![3] = Hit(0 - 1)]}

\* ------------------------------------------------------------------------
\* b3Particle, b3BodyContact, b3Cloth
\* ------------------------------------------------------------------------

ParticleTypes == {"e_staticParticle", "e_kinematicParticle", "e_dynamicParticle"}

Particles == 1..Len(ClothMesh.vertices)

NullContact ==
  [active |-> FALSE, s2 |-> 0, s |-> Zero,
   n |-> Vec3_zero, t1 |-> Vec3_zero, t2 |-> Vec3_zero,
   normalImpulse |-> Zero, tangentImpulse |-> <<Zero, Zero>>,
   t1_active |-> FALSE, t2_active |-> FALSE,
   Fn |-> Zero, Ft1 |-> Zero, Ft2 |-> Zero]

\* The particle the constructor creates for mesh vertex i.
CreateParticle(m, rho, i) ==
  [m_type        |-> "e_dynamicParticle",
   m_position    |-> m.vertices[i],
   m_velocity    |-> Vec3_zero,
   m_force       |-> Vec3_zero,
   m_translation |-> Vec3_zero,
   m_mass        |-> ComputeMass(m, rho, i).m_mass,
   m_invMass     |-> ComputeMass(m, rho, i).m_invMass,
   m_x           |-> Vec3_zero,
   m_vertex      |-> i,
   m_solverId    |-> 0,
   m_bodyContact |-> NullContact]

\* b3List::PushFront: the list holds its elements newest first.
Reverse(q) == Tuple([k \in 1..Len(q) |-> q[Len(q) + 1 - k]])

\* The forces with the bending springs along the shared edges.
CreatedForces_AlongSharedEdge(m) ==
  LET uniqueEdges == b3FindUniqueEdges(m)
      sharedEdges == b3FindSharedEdges(m)
  IN Tuple([k \in 1..Len(uniqueEdges) |->
              [m_p1 |-> uniqueEdges[k].v1, m_p2 |-> uniqueEdges[k].v2, kind |-> "structural"]])
     \o
     Tuple([k \in 1..Len(sharedEdges) |->
              [m_p1 |-> sharedEdges[k].v1, m_p2 |-> sharedEdges[k].v2, kind |-> "bending"]])
     \o
     Tuple([k \in 1..Len(m.sewingLines) |->
              [m_p1 |-> m.sewingLines[k][1], m_p2 |-> m.sewingLines[k][2], kind |-> "sewing"]])

\* The spring forces of the constructor in creation order: structural, bending, sewing.
CreatedForces(m) ==
  LET uniqueEdges == b3FindUniqueEdges(m)
      sharedEdges == b3FindSharedEdges(m)
  IN Tuple([k \in 1..Len(uniqueEdges) |->
              [m_p1 |-> uniqueEdges[k].v1, m_p2 |-> uniqueEdges[k].v2, kind |-> "structural"]])
     \o
     Tuple([k \in 1..Len(sharedEdges) |->
              [m_p1 |-> sharedEdges[k].nsv1, m_p2 |-> sharedEdges[k].nsv2, kind |-> "bending"]])
     \o
     Tuple([k \in 1..Len(m.sewingLines) |->
              [m_p1 |-> m.sewingLines[k][1], m_p2 |-> m.sewingLines[k][2], kind |-> "sewing"]])

VARIABLES
  m_mesh,                    \* the mesh the cloth is built from
  m_vertexParticles,         \* vertex -> particle id, 0 for NULL
  m_particleList,            \* particle ids, head of the list first
  particles,                 \* particle id -> b3Particle
  m_forceList,               \* the forces, head of the list first
  m_world,                   \* TRUE when a world is attached (m_world # nullptr)
  m_gravity,
  b3_clothSolverIterations,
  asserts,                   \* TRUE in a build that compiles B3_ASSERT in
  fault,                     \* TRUE once an assertion has failed
  solver,                    \* the b3ClothSolver of a solve run pass by pass
  last,                      \* the last operation, its arguments, the particles before it
  budget                     \* how many more operations the exploration follows

vars == <<m_mesh, m_vertexParticles, m_particleList, particles, m_forceList, m_world, m_gravity,
          b3_clothSolverIterations, asserts, fault, solver, last, budget>>

InList(list, id) == \E k \in 1..Len(list) : list[k] = id

IndexOf(list, id) == CHOOSE k \in 1..Len(list) : list[k] = id

\* ------------------------------------------------------------------------
\* b3Cloth::UpdateBodyContacts
\* ------------------------------------------------------------------------

\* b3Perp: a unit vector perpendicular to a unit vector along an axis.
b3Perp[v \in Vec3s] ==
  IF FLe(<<57735027, 100000000>>, <<Abs(v[1][1]), v[1][2]>>)
  THEN <<v[2], FNeg[v[1]], Zero>>
  ELSE <<Zero, v[3], FNeg[v[2]]>>

NoBest == [bestShape |-> 0, bestSeparation |-> Zero, bestNormal |-> Vec3_zero]

\* The test with <= for <.
Deeper_OrEqual(output, best) == output.hit /\ FLe(output.separation, best.bestSeparation)

\* The test of one shape against the best one so far.
Deeper(output, best) == output.hit /\ FLt(output.separation, best.bestSeparation)

\* The loops over the bodies and their shapes, from pair k of ShapeOrder on.
RECURSIVE FindDeepest(_, _, _, _)
FindDeepest(type, outputs, k, best) ==
  IF k > Len(ShapeOrder) THEN best
  ELSE IF type # "e_dynamicParticle" THEN FindDeepest(type, outputs, k + 1, best)
  ELSE IF ShapeOrder[k].bodyType # "e_staticBody"
       THEN FindDeepest(type, outputs, k + 1, best)
  ELSE IF Deeper(outputs[ShapeOrder[k].shape], best)
       THEN FindDeepest(type, outputs, k + 1,
              [bestShape      |-> ShapeOrder[k].shape,
               bestSeparation |-> outputs[ShapeOrder[k].shape].separation,
               bestNormal     |-> outputs[ShapeOrder[k].shape].normal])
  ELSE FindDeepest(type, outputs, k + 1, best)

\* The refreshed contact without the copy of the impulses of c0.
RefreshedContact_Fresh(c0, best) ==
  [c0 EXCEPT !.active = TRUE,
             !.s2 = best.bestShape,
             !.n = VNeg[best.bestNormal],
             !.t1 = b3Perp[VNeg[best.bestNormal]],
             !.t2 = b3Cross[b3Perp[VNeg[best.bestNormal]], VNeg[best.bestNormal]],
             !.normalImpulse = Zero,
             !.tangentImpulse = <<Zero, Zero>>]

\* The contact written for the best shape over the previous record c0.
RefreshedContact(c0, best) ==
  LET normal == VNeg[best.bestNormal]
      t1     == b3Perp[normal]
  IN [c0 EXCEPT !.active = TRUE,
               !.s2 = best.bestShape,
               !.n = normal,
               !.t1 = t1,
               !.t2 = b3Cross[t1, normal],
               !.normalImpulse = IF c0.active THEN c0.normalImpulse ELSE Zero,
               !.tangentImpulse = IF c0.active THEN c0.tangentImpulse
                                  ELSE <<Zero, Zero>>]

\* The refresh passing over the particles that are not dynamic, their
\* contact left as it was.
UpdateBodyContact_SkipsPinned(p, outputs) ==
  IF p.m_type # "e_dynamicParticle" THEN p
  ELSE LET best == FindDeepest(p.m_type, outputs, 1, NoBest)
       IN IF best.bestShape = 0
          THEN [p EXCEPT !.m_bodyContact.active = FALSE]
          ELSE [p EXCEPT !.m_bodyContact = RefreshedContact(p.m_bodyContact, best)]

\* The body of the loop over the particles: the refreshed particle.
UpdateBodyContact(p, outputs) ==
  LET best == FindDeepest(p.m_type, outputs, 1, NoBest)
  IN IF best.bestShape = 0
     THEN [p EXCEPT !.m_bodyContact.active = FALSE]
     ELSE [p EXCEPT !.m_bodyContact = RefreshedContact(p.m_bodyContact, best)]

UpdateBodyContacts(ps, list, world, outputs) ==
  IF ~world THEN ps
  ELSE Tuple([id \in 1..Len(ps) |->
                IF InList(list, id) THEN UpdateBodyContact(ps[id], outputs) ELSE ps[id]])

\* ------------------------------------------------------------------------
\* b3ClothSolver: assembly
\* ------------------------------------------------------------------------

\* The internal forces: what the springs return from Initialize and Apply in
\* one step.  The force in slot k pulls with k * f on its first particle and
\* with -k * f on its second; the Jacobian blocks of every force are
\* -ks * I and -kd * I on the diagonal and ks * I, kd * I off it.
Spring(f, ks, kd) == [tension |-> f, ks |-> ks, kd |-> kd]

Slack == Spring(Vec3_zero, Zero, Zero)

Taut == Spring(Vec3(1, 0, 0), Zero, Zero)

Stiff == Spring(Vec3(1, 0, 0), One, Zero)

\* A negative stiffness that makes A singular with positive diagonal blocks.
Degenerate == Spring(Vec3(1, 0, 0), R(0 - 1), Zero)

\* Slack springs and springs under tension.
SpringResponses == {Slack, Taut}

\* b3ClothSolver::Add(b3Particle*): the particle in slot k gets m_solverId k - 1.
AssignSolverIds(ps, list) ==
  Tuple([id \in 1..Len(ps) |-> IF InList(list, id) THEN [ps[id] EXCEPT !.m_solverId = IndexOf(list, id) - 1] ELSE ps[id]])

\* b3Cloth::Solve: the contacts handed to the solver, as their particles.
SolverContacts(ps, list) ==
  LET Active(id) == ps[id].m_bodyContact.active
  IN SelectSeq(list, Active)

\* InitializeForces and ApplyForces: the force buffer after the forces from k on.
RECURSIVE ApplyForces(_, _, _, _, _)
ApplyForces(ps, forces, resp, k, sf) ==
  IF k > Len(forces) THEN sf
  ELSE LET i1   == ps[forces[k].m_p1].m_solverId + 1
           i2   == ps[forces[k].m_p2].m_solverId + 1
           f    == VScale[R(k), resp.tension]
           add1 == [sf EXCEPT ![i1] = VAdd[sf[i1], f]]
       IN The({ApplyForces(ps, forces, resp, k + 1, add2) :
                 add2 \in {[add1 EXCEPT ![i2] = VSub[add1[i2], f]]}})

\* The Jacobian accumulator (dfdx for stiffness, dfdv for damping) after the
\* forces from k on; only the upper triangle is stored.
RECURSIVE ApplyJacobians(_, _, _, _, _)
ApplyJacobians(ps, forces, coeff, k, J) ==
  IF k > Len(forces) THEN J
  ELSE LET i1 == ps[forces[k].m_p1].m_solverId + 1
           i2 == ps[forces[k].m_p2].m_solverId + 1
           lo == IF i1 <= i2 THEN i1 ELSE i2
           hi == IF i1 <= i2 THEN i2 ELSE i1
       IN The({ApplyJacobians(ps, forces, coeff, k + 1, d3) :
                 d3 \in {[J EXCEPT ![i1][i1] = MAdd[@, b3Diagonal[FNeg[coeff]]],
                                   ![i2][i2] = MAdd[@, b3Diagonal[FNeg[coeff]]],
                                   ![lo][hi] = MAdd[@, b3Diagonal[coeff]]]}})

\* No constraint for the particles that are not dynamic.
PinConstraints_None(ps, list) == << >>

\* b3ClothSolver::InitializeConstraints: the constraints of the pinned slots.
PinConstraints(ps, list) ==
  LET Pinned(k) == ps[list[k]].m_type # "e_dynamicParticle"
      pinned    == SelectSeq(Tuple([k \in 1..Len(list) |-> k]), Pinned)
  IN Tuple([c \in 1..Len(pinned) |->
              [i1 |-> pinned[c] - 1, ndof |-> 0, p |-> Vec3_zero, q |-> Vec3_zero, z |-> Vec3_zero]])

\* The constraint of a contact with one tangent engaged restricting t1
\* whichever tangent it is.
ContactConstraint_FirstTangent(p) ==
  [i1   |-> p.m_solverId,
   ndof |-> IF p.m_bodyContact.t1_active /\ p.m_bodyContact.t2_active THEN 0
            ELSE IF p.m_bodyContact.t1_active \/ p.m_bodyContact.t2_active THEN 1
            ELSE 2,
   p    |-> p.m_bodyContact.n,
   q    |-> IF p.m_bodyContact.t1_active /\ p.m_bodyContact.t2_active THEN Vec3_zero
            ELSE IF p.m_bodyContact.t1_active \/ p.m_bodyContact.t2_active
                 THEN p.m_bodyContact.t1
            ELSE Vec3_zero,
   z    |-> Vec3_zero]

\* b3ClothSolver::InitializeConstraints: the constraint of the contact of p.
ContactConstraint(p) ==
  [i1   |-> p.m_solverId,
   ndof |-> IF p.m_bodyContact.t1_active /\ p.m_bodyContact.t2_active THEN 0
            ELSE IF p.m_bodyContact.t1_active \/ p.m_bodyContact.t2_active THEN 1
            ELSE 2,
   p    |-> p.m_bodyContact.n,
   q    |-> IF p.m_bodyContact.t1_active /\ p.m_bodyContact.t2_active THEN Vec3_zero
            ELSE IF p.m_bodyContact.t2_active THEN p.m_bodyContact.t2
            ELSE IF p.m_bodyContact.t1_active THEN p.m_bodyContact.t1
            ELSE Vec3_zero,
   z    |-> Vec3_zero]

InitializeConstraints(ps, list, contacts) ==
  PinConstraints(ps, list) \o
  Tuple([c \in 1..Len(contacts) |-> ContactConstraint(ps[contacts[c]])])

\* The block with ndof == 0 left at the identity.
ConstraintFilter_Free(ac) ==
  IF ac.ndof = 2 THEN MSub[Mat33_identity, b3Outer[ac.p, ac.p]]
  ELSE IF ac.ndof = 1
       THEN MSub[MSub[Mat33_identity, b3Outer[ac.p, ac.p]], b3Outer[ac.q, ac.q]]
  ELSE Mat33_identity

\* The block S[ip] a constraint writes.
ConstraintFilter(ac) ==
  IF ac.ndof = 2 THEN MSub[Mat33_identity, b3Outer[ac.p, ac.p]]
  ELSE IF ac.ndof = 1
       THEN MSub[MSub[Mat33_identity, b3Outer[ac.p, ac.p]], b3Outer[ac.q, ac.q]]
  ELSE Mat33_zero

\* b3ClothSolver::Compute_S_z: S and z after the constraints from k on.
RECURSIVE Compute_S_z(_, _, _)
Compute_S_z(constraints, k, Sz) ==
  IF k > Len(constraints) THEN Sz
  ELSE The({Compute_S_z(constraints, k + 1, next) :
              next \in {[S |-> [Sz.S EXCEPT ![constraints[k].i1 + 1] = ConstraintFilter(constraints[k])],
                         z |-> [Sz.z EXCEPT ![constraints[k].i1 + 1] = constraints[k].z]]}})

\* b3ClothSolver::Compute_A_b
Compute_A[M \in Seq(Float), dfdx \in SymMat33s, dfdv \in SymMat33s, h \in Float] ==
  Tuple([i \in 1..Len(M) |-> Tuple([j \in 1..Len(M) |-> IF j < i THEN Mat33_zero
     ELSE MAdd[IF i = j THEN b3Diagonal[M[i]] ELSE Mat33_zero,
               MAdd[MScale[FNeg[h], dfdv[i][j]],
                    MScale[FMul[FNeg[h], h], dfdx[i][j]]]]])])

Compute_b[dfdx \in SymMat33s, f \in DenseVec3s, v \in DenseVec3s, y \in DenseVec3s, h \in Float] ==
  DScale[h, DAdd[DAdd[f, DScale[h, b3Mul[dfdx, v]]], b3Mul[dfdx, y]]]

\* ------------------------------------------------------------------------
\* b3ClothSolver::Solve(dt, gravity) and b3Cloth::Solve
\* ------------------------------------------------------------------------

\* The force buffer: the applied force and the weight of the dynamic particles.
Gather_sf(ps, list, gravity) ==
  Tuple([i \in 1..Len(list) |-> IF ps[list[i]].m_type = "e_dynamicParticle"
     THEN VAdd[ps[list[i]].m_force, VScale[ps[list[i]].m_mass, gravity]]
     ELSE ps[list[i]].m_force])

\* The translation buffer after the position correction of the contacts from k on.
RECURSIVE CorrectPositions(_, _, _, _)
CorrectPositions(ps, contacts, k, sy) ==
  IF k > Len(contacts) THEN sy
  ELSE The({CorrectPositions(ps, contacts, k + 1, next) :
              next \in {[sy EXCEPT ![ps[contacts[k]].m_solverId + 1] =
                           VSub[@, VScale[ps[contacts[k]].m_bodyContact.s,
                                          ps[contacts[k]].m_bodyContact.n]]]}})

\* The solver between its construction by b3Cloth::Solve and the call of
\* MPCG: the particles with their slots, the state buffers, the constraints
\* and the linear system.
Assembled(ps, list, forces, dt, gravity, resp) ==
  LET contacts    == SolverContacts(ps, list)
      sv          == Tuple([i \in 1..Len(list) |-> ps[list[i]].m_velocity])
      sy0         == Tuple([i \in 1..Len(list) |-> ps[list[i]].m_translation])
      sy          == CorrectPositions(ps, contacts, 1, sy0)
      sf          == ApplyForces(ps, forces, resp, 1, Gather_sf(ps, list, gravity))
      dfdx        == ApplyJacobians(ps, forces, resp.ks, 1, SymZero(Len(list)))
      dfdv        == ApplyJacobians(ps, forces, resp.kd, 1, SymZero(Len(list)))
      constraints == InitializeConstraints(ps, list, contacts)
      Sz          == Compute_S_z(constraints, 1,
                                 [S |-> DiagIdentity(Len(list)), z |-> DenseZero(Len(list))])
  IN [particles   |-> ps,
      contacts    |-> contacts,
      constraints |-> constraints,
      dt          |-> dt,
      sx          |-> Tuple([i \in 1..Len(list) |-> ps[list[i]].m_position]),
      sv          |-> sv,
      sy          |-> sy,
      sx0         |-> Tuple([i \in 1..Len(list) |-> ps[list[i]].m_x]),
      S           |-> Sz.S,
      z           |-> Sz.z,
      A           |-> Compute_A[Tuple([i \in 1..Len(list) |-> ps[list[i]].m_mass]), dfdx, dfdv, dt],
      b           |-> Compute_b[dfdx, sf, sv, sy, dt]]

Assemble(ps0, list, forces, dt, gravity, resp) ==
  The({Assembled(ps, list, forces, dt, gravity, resp) : ps \in {AssignSolverIds(ps0, list)}})

\* The end of b3ClothSolver::Solve(dt, gravity) once MPCG has returned x: the
\* particles with the new state sx, sv, the cached solution x and the contact
\* forces read from the residual f = A * x - b.
Scattered(sys, list, x, sv, sx, f) ==
  Tuple([id \in 1..Len(sys.particles) |-> IF ~InList(list, id) THEN sys.particles[id]
    ELSE LET p == sys.particles[id]
             i == IndexOf(list, id)
         IN [p EXCEPT
               !.m_position = sx[i],
               !.m_velocity = sv[i],
               !.m_x = x[i],
               !.m_bodyContact.Fn =
                  IF p.m_bodyContact.active THEN b3Dot[f[i], p.m_bodyContact.n] ELSE @,
               !.m_bodyContact.Ft1 =
                  IF p.m_bodyContact.active THEN b3Dot[f[i], p.m_bodyContact.t1] ELSE @,
               !.m_bodyContact.Ft2 =
                  IF p.m_bodyContact.active THEN b3Dot[f[i], p.m_bodyContact.t2] ELSE @]])

Scatter(sys, list, x) ==
  The({Scattered(sys, list, x, sv, DAdd[DAdd[sys.sx, DScale[sys.dt, sv]], sys.sy], f) :
         sv \in {DAdd[sys.sv, x]}, f \in {DSub[b3Mul[sys.A, x], sys.b]}})

\* The solver run from MPCG on for the assembled system sys.
Solved(sys, list, withAsserts) ==
  The({[fault      |-> solved.fault,
        iterations |-> solved.st.iteration,
        particles  |-> IF solved.fault THEN sys.particles
                       ELSE Scatter(sys, list, solved.st.x)] :
         solved \in {MPCG_Solve(sys.A, sys.b, sys.S, sys.z, sys.sx0, withAsserts)}})

\* b3Cloth::Solve: the solver built, run and left; the result holds the
\* particles after the scatter, the iteration count and whether an assertion
\* failed (and then the particles as they were).
ClothSolve(ps0, list, forces, dt, gravity, resp, withAsserts) ==
  The({Solved(sys, list, withAsserts) : sys \in {Assemble(ps0, list, forces, dt, gravity, resp)}})

\* The clearing without the translations.
ClearForces_ForceOnly(ps, list) ==
  Tuple([id \in 1..Len(ps) |-> IF InList(list, id)
     THEN [ps[id] EXCEPT !.m_force = Vec3_zero]
     ELSE ps[id]])

\* The end of b3Cloth::Step: clear the applied forces and translations.
ClearForces(ps, list) ==
  Tuple([id \in 1..Len(ps) |-> IF InList(list, id)
     THEN [ps[id] EXCEPT !.m_force = Vec3_zero, !.m_translation = Vec3_zero]
     ELSE ps[id]])

\* ------------------------------------------------------------------------
\* Inputs of the operations
\* ------------------------------------------------------------------------

TimeSteps == {Zero, One}

Velocities == {Vec3(0, 2, 0)}

ForceInputs == {Vec3(0, 0, 1)}

Translations == {Vec3(0, 1, 0)}

Gravities == {Vec3(0, 0 - 1, 0)}

\* The particles the application holds a pointer to.
Handles == {1, 2}

\* ------------------------------------------------------------------------
\* The state after construction
\* ------------------------------------------------------------------------

Idle == [pc |-> "idle"]

NoOp == [op |-> "b3Cloth", p |-> 0, type |-> "", arg |-> Vec3_zero, dt |-> Zero,
         outputs |-> NoScene, resp |-> Slack, solved |-> FALSE, before |-> << >>]

\* b3Cloth::b3Cloth without the world and the exploration budget.
Constructed ==
  /\ m_mesh = ClothMesh
  /\ m_vertexParticles = Tuple([i \in 1..Len(ClothMesh.vertices) |-> i])
  /\ m_particleList = Reverse(Tuple([i \in 1..Len(ClothMesh.vertices) |-> i]))
  /\ particles = Tuple([i \in 1..Len(ClothMesh.vertices) |->
                          CreateParticle(ClothMesh, ClothDensity, i)])
  /\ m_forceList = Reverse(CreatedForces(ClothMesh))
  /\ m_gravity = Vec3_zero
  /\ b3_clothSolverIterations = 0
  /\ asserts = TRUE
  /\ fault = FALSE
  /\ solver = Idle
  /\ last = NoOp

\* b3Cloth::b3Cloth
Init ==
  /\ Constructed
  /\ m_world = FALSE
  /\ budget = MaxOps

\* ------------------------------------------------------------------------
\* Operations of b3Cloth
\* ------------------------------------------------------------------------

\* The call of an operation on particle p is recorded in last.
Called(op, p, type, arg) ==
  /\ ~fault
  /\ budget > 0
  /\ budget' = budget - 1
  /\ last' = [NoOp EXCEPT !.op = op, !.p = p, !.type = type, !.arg = arg,
                          !.before = particles]

\* SetType without the deactivation of the contact.
SetTypeOf_KeepsContact(pt, type) ==
  IF pt.m_type = type THEN pt
  ELSE IF type = "e_staticParticle"
       THEN [pt EXCEPT !.m_type = type,
                       !.m_force = Vec3_zero,
                       !.m_velocity = Vec3_zero,
                       !.m_translation = Vec3_zero]
       ELSE [pt EXCEPT !.m_type = type, !.m_force = Vec3_zero]

\* b3Cloth::SetType
SetTypeOf(pt, type) ==
  IF pt.m_type = type THEN pt
  ELSE IF type = "e_staticParticle"
       THEN [pt EXCEPT !.m_type = type,
                       !.m_force = Vec3_zero,
                       !.m_velocity = Vec3_zero,
                       !.m_translation = Vec3_zero,
                       !.m_bodyContact.active = FALSE,
                       !.m_bodyContact.t1_active = FALSE,
                       !.m_bodyContact.t2_active = FALSE]
       ELSE [pt EXCEPT !.m_type = type, !.m_force = Vec3_zero]

SetType(p, type) ==
  /\ Called("SetType", p, type, Vec3_zero)
  /\ particles' = [particles EXCEPT ![p] = SetTypeOf(particles[p], type)]
  /\ UNCHANGED <<m_mesh, m_vertexParticles, m_particleList, m_forceList, m_world, m_gravity,
                 b3_clothSolverIterations, asserts, fault, solver>>

\* b3Cloth::Translate
TranslateOf(pt, translation) ==
  [pt EXCEPT !.m_translation = VAdd[pt.m_translation, translation]]

Translate(p, translation) ==
  /\ Called("Translate", p, "", translation)
  /\ particles' = [particles EXCEPT ![p] = TranslateOf(particles[p], translation)]
  /\ UNCHANGED <<m_mesh, m_vertexParticles, m_particleList, m_forceList, m_world, m_gravity,
                 b3_clothSolverIterations, asserts, fault, solver>>

\* SetVelocity without the test of the type.
SetVelocityOf_Always(pt, velocity) == [pt EXCEPT !.m_velocity = velocity]

\* b3Cloth::SetVelocity
SetVelocityOf(pt, velocity) ==
  IF pt.m_type = "e_staticParticle" THEN pt ELSE [pt EXCEPT !.m_velocity = velocity]

SetVelocity(p, velocity) ==
  /\ Called("SetVelocity", p, "", velocity)
  /\ particles' = [particles EXCEPT ![p] = SetVelocityOf(particles[p], velocity)]
  /\ UNCHANGED <<m_mesh, m_vertexParticles, m_particleList, m_forceList, m_world, m_gravity,
                 b3_clothSolverIterations, asserts, fault, solver>>

\* b3Cloth::ApplyForce
ApplyForceOf(pt, force) ==
  IF pt.m_type # "e_dynamicParticle" THEN pt
  ELSE [pt EXCEPT !.m_force = VAdd[pt.m_force, force]]

ApplyForce(p, force) ==
  /\ Called("ApplyForce", p, "", force)
  /\ particles' = [particles EXCEPT ![p] = ApplyForceOf(particles[p], force)]
  /\ UNCHANGED <<m_mesh, m_vertexParticles, m_particleList, m_forceList, m_world, m_gravity,
                 b3_clothSolverIterations, asserts, fault, solver>>

\* b3Cloth::SetGravity
SetGravity(gravity) ==
  /\ Called("SetGravity", 0, "", gravity)
  /\ m_gravity' = gravity
  /\ UNCHANGED <<m_mesh, m_vertexParticles, m_particleList, particles, m_forceList, m_world,
                 b3_clothSolverIterations, asserts, fault, solver>>

\* The rest of b3Cloth::Step once the contacts are refreshed: the solve when
\* dt > 0, the clearing.
Stepped(refreshed, list, forces, gravity, dt, resp, withAsserts) ==
  IF FLt(Zero, dt)
  THEN The({[fault      |-> solved.fault,
             solved     |-> TRUE,
             iterations |-> solved.iterations,
             particles  |-> IF solved.fault THEN refreshed
                            ELSE ClearForces(solved.particles, list)] :
              solved \in {ClothSolve(refreshed, list, forces, dt, gravity, resp, withAsserts)}})
  ELSE [fault      |-> FALSE,
        solved     |-> FALSE,
        iterations |-> 0,
        particles  |-> ClearForces(refreshed, list)]

\* Step with the refresh under the test of dt.
StepOf_SkipsRefresh(ps, list, forces, world, outputs, gravity, dt, resp, withAsserts) ==
  IF FLt(Zero, dt)
  THEN The({Stepped(refreshed, list, forces, gravity, dt, resp, withAsserts) :
              refreshed \in {UpdateBodyContacts(ps, list, world, outputs)}})
  ELSE Stepped(ps, list, forces, gravity, dt, resp, withAsserts)

\* b3Cloth::Step
StepOf(ps, list, forces, world, outputs, gravity, dt, resp, withAsserts) ==
  The({Stepped(refreshed, list, forces, gravity, dt, resp, withAsserts) :
         refreshed \in {UpdateBodyContacts(ps, list, world, outputs)}})

\* outputs is what TestSphere returns during the step, resp what the springs do.
Step(dt, outputs, resp) ==
  /\ ~fault
  /\ budget > 0
  /\ budget' = budget - 1
  /\ \E out \in {StepOf(particles, m_particleList, m_forceList, m_world, outputs,
                        m_gravity, dt, resp, asserts)} :
        /\ particles' = out.particles
        /\ fault' = out.fault
        /\ b3_clothSolverIterations' =
             IF out.solved /\ ~out.fault THEN out.iterations ELSE b3_clothSolverIterations
        /\ last' = [NoOp EXCEPT !.op = "Step", !.dt = dt, !.outputs = outputs, !.resp = resp,
                                !.solved = out.solved, !.before = particles]
  /\ UNCHANGED <<m_mesh, m_vertexParticles, m_particleList, m_forceList, m_world, m_gravity, asserts, solver>>

\* A step of a cloth outside any world: no shape is tested.
FreeStep(dt, resp) == Step(dt, NoScene, resp)

\* A cloth outside any world, driven through its interface.
Next ==
  \/ \E p \in Handles, type \in ParticleTypes : SetType(p, type)
  \/ \E p \in Handles, translation \in Translations : Translate(p, translation)
  \/ \E p \in Handles, velocity \in Velocities : SetVelocity(p, velocity)
  \/ \E p \in Handles, force \in ForceInputs : ApplyForce(p, force)
  \/ \E gravity \in Gravities : SetGravity(gravity)
  \/ \E dt \in TimeSteps, resp \in SpringResponses : FreeStep(dt, resp)

Spec == Init /\ [][Next]_vars

\* ------------------------------------------------------------------------
\* A cloth in a world
\* ------------------------------------------------------------------------

\* The particle the application holds a pointer to.
ContactHandles == {1}

\* b3World::CreateCloth: the cloth is constructed and the world attached.
InitWorld ==
  /\ Constructed
  /\ m_world = TRUE
  /\ budget = MaxContactOps

\* The contact solver between two steps: the impulses it accumulates on an
\* active contact.
AccumulateImpulse(p) ==
  /\ Called("AccumulateImpulse", p, "", Vec3_zero)
  /\ particles[p].m_bodyContact.active
  /\ particles' = [particles EXCEPT ![p].m_bodyContact.normalImpulse = One,
                                    ![p].m_bodyContact.tangentImpulse = <<One, Zero>>]
  /\ UNCHANGED <<m_mesh, m_vertexParticles, m_particleList, m_forceList, m_world, m_gravity,
                 b3_clothSolverIterations, asserts, fault, solver>>

\* A step of the cloth with taut springs while the shapes are where
\* outputs tells.
ContactStep(dt, outputs) == Step(dt, outputs, Taut)

NextContacts ==
  \/ \E p \in ContactHandles, type \in ParticleTypes : SetType(p, type)
  \/ \E p \in ContactHandles, translation \in Translations : Translate(p, translation)
  \/ \E p \in ContactHandles : AccumulateImpulse(p)
  \/ \E dt \in TimeSteps, outputs \in ContactScenes : ContactStep(dt, outputs)

SpecContacts == InitWorld /\ [][NextContacts]_vars

\* The positions of the shapes a refresh is explored at: nothing in reach; a
\* shape of the dynamic body alone; a static shape touching at separation
\* zero; the two static shapes equally deep; the second, then the first
\* static shape the deeper one, the shape of the dynamic body deepest.
RefreshScenes ==
  {NoScene,
   [NoScene EXCEPT ![1] = Hit(0 - 2)],
   [NoScene EXCEPT ![2] = Hit(0)],
   [NoScene EXCEPT ![1] = Hit(0 - 2), ![2] = Hit(0 - 1), ![3] = Hit(0 - 1)],
   [NoScene EXCEPT ![1] = Hit(0 - 2), ![2] = Hit(0 - 1), ![3] = Hit(0 - 2)],
   [NoScene EXCEPT ![1] = Hit(0 - 2), ![2] = Hit(0 - 2), ![3] = Hit(0 - 1)],
   [NoScene EXCEPT ![3] = Hit(0 - 1)]}

InitRefresh ==
  /\ Constructed
  /\ m_world = TRUE
  /\ budget = MaxRefreshes

\* b3Cloth::Step with dt = 0: the refresh and the clearing.
Refresh(outputs) == Step(Zero, outputs, Slack)

NextRefresh ==
  \/ \E p \in Handles, type \in ParticleTypes : SetType(p, type)
  \/ \E outputs \in RefreshScenes : Refresh(outputs)

SpecRefresh == InitRefresh /\ [][NextRefresh]_vars

\* ------------------------------------------------------------------------
\* One step of the cloth, the solver run pass by pass
\* ------------------------------------------------------------------------

\* What the contact logic left in the tangent flags of a contact.
TangentFlags == {<<FALSE, FALSE>>, <<TRUE, FALSE>>, <<FALSE, TRUE>>, <<TRUE, TRUE>>}

EngageTangents(pt, flags) ==
  [pt EXCEPT !.m_bodyContact.t1_active = flags[1], !.m_bodyContact.t2_active = flags[2]]

\* What the springs do in the step: the physical ones and the degenerate one.
SolverResponses == {Taut, Stiff, Degenerate}

\* The springs and the tangent flags of the contact of the first particle
\* in one step.  The solve is exact on fractions of 32-bit integers, which
\* hold three passes of a coupled system: the stiff springs come with the
\* filters that leave it two distinct eigenvalues.
SolverCases ==
  {case \in SolverResponses \X TangentFlags :
     /\ case[1] = Stiff => case[2][1] = case[2][2]
     /\ case[1] = Degenerate => case[2] = <<FALSE, FALSE>>}

PhysicalSpring(resp) == FLe(Zero, resp.ks) /\ FLe(Zero, resp.kd)

\* The particle of vertex i brought to its type through the interface, moving
\* (when its type lets it), pushed (when its type lets it) and translated;
\* flags are the tangent flags of its contact.
Prepared(i, type, flags) ==
  TranslateOf(
    ApplyForceOf(
      SetVelocityOf(
        EngageTangents(SetTypeOf(CreateParticle(ClothMesh, ClothDensity, i), type), flags),
        Vec3(0, 2, 0)),
      Vec3(0, 0, 1)),
    Vec3(0, 1, 0))

\* The cloth at the call of Step(dt) with dt > 0, in a debug or a release build.
InitSolver ==
  /\ m_mesh = ClothMesh
  /\ m_vertexParticles = Tuple([i \in 1..Len(ClothMesh.vertices) |-> i])
  /\ m_particleList = Reverse(Tuple([i \in 1..Len(ClothMesh.vertices) |-> i]))
  /\ m_forceList = Reverse(CreatedForces(ClothMesh))
  /\ \E types \in [Particles -> ParticleTypes], case \in SolverCases,
        outputs \in ContactScenes :
       /\ particles = Tuple([i \in Particles |->
                               Prepared(i, types[i],
                                        IF i = 1 THEN case[2] ELSE <<FALSE, FALSE>>)])
       /\ solver = [pc |-> "call", dt |-> One, outputs |-> outputs, resp |-> case[1]]
  /\ m_world = TRUE
  /\ m_gravity \in Gravities
  /\ b3_clothSolverIterations = 0
  /\ asserts \in BOOLEAN
  /\ fault = FALSE
  /\ last = NoOp
  /\ budget = 0

\* b3Cloth::Step up to the main loop of MPCG: the refresh, the solver built
\* and filled, the system assembled, the preconditioner and the first residual.
SolverBegin ==
  /\ solver.pc = "call"
  /\ \E sys \in {Assemble(UpdateBodyContacts(particles, m_particleList, m_world, solver.outputs),
                          m_particleList, m_forceList, solver.dt, m_gravity, solver.resp)} :
       /\ particles' = sys.particles
       /\ IF asserts /\ ~PreconditionerAsserts(sys.A)
          THEN /\ fault' = TRUE
               /\ solver' = [solver EXCEPT !.pc = "fault"]
          ELSE /\ fault' = FALSE
               /\ solver' = [pc |-> "loop", dt |-> solver.dt, outputs |-> solver.outputs,
                             resp |-> solver.resp, sys |-> sys,
                             st |-> MPCG_Begin(sys.A, sys.b, sys.S, sys.z, sys.sx0)]
  /\ last' = [NoOp EXCEPT !.op = "Step", !.dt = solver.dt, !.outputs = solver.outputs,
                          !.resp = solver.resp, !.solved = TRUE, !.before = particles]
  /\ UNCHANGED <<m_mesh, m_vertexParticles, m_particleList, m_forceList, m_world, m_gravity,
                 b3_clothSolverIterations, asserts, budget>>

\* One pass of the main loop.
SolverPass ==
  /\ solver.pc = "loop"
  /\ LoopExit(solver.st, asserts) = "pass"
  /\ solver' = [solver EXCEPT !.st = MPCG_Iterate(solver.st, solver.sys.A, solver.sys.S)]
  /\ UNCHANGED <<m_mesh, m_vertexParticles, m_particleList, particles, m_forceList, m_world, m_gravity,
                 b3_clothSolverIterations, asserts, fault, last, budget>>

\* B3_ASSERT(b3IsValid(delta_new)) fails.
SolverAssert ==
  /\ solver.pc = "loop"
  /\ LoopExit(solver.st, asserts) = "assert"
  /\ fault' = TRUE
  /\ solver' = [solver EXCEPT !.pc = "fault"]
  /\ UNCHANGED <<m_mesh, m_vertexParticles, m_particleList, particles, m_forceList, m_world, m_gravity,
                 b3_clothSolverIterations, asserts, last, budget>>

\* The loop left by one of its breaks: the rest of the solve and of the step.
SolverEnd ==
  /\ solver.pc = "loop"
  /\ LoopExit(solver.st, asserts) = "break"
  /\ particles' = ClearForces(Scatter(solver.sys, m_particleList, solver.st.x), m_particleList)
  /\ b3_clothSolverIterations' = solver.st.iteration
  /\ solver' = [solver EXCEPT !.pc = "return"]
  /\ UNCHANGED <<m_mesh, m_vertexParticles, m_particleList, m_forceList, m_world, m_gravity, asserts, fault, last, budget>>

NextSolver ==
  \/ SolverBegin
  \/ SolverPass
  \/ SolverAssert
  \/ SolverEnd

\* The thread that called Step keeps running.
SpecSolver == InitSolver /\ [][NextSolver]_vars /\ WF_vars(NextSolver)

\* ------------------------------------------------------------------------
\* Construction from a mesh, removal of particles
\* ------------------------------------------------------------------------

\* The longest list of triangles drawn from TriangleChoices.
MaxTriangles == 2

\* The longest list of coincident triangles, wound one way or the other.
MaxLayers == 5

\* The corners of a rectangle in the plane y = 0.
MeshVertices == <<Vec3(0, 0, 0), Vec3(2, 0, 0), Vec3(0, 0, 3), Vec3(2, 0, 3)>>

\* A triangle, the same reversed, the same rotated, the second triangle of
\* the quad, a neighbour wound the other way, a triangle of no area.
TriangleChoices ==
  {<<1, 2, 3>>, <<3, 2, 1>>, <<2, 3, 1>>, <<1, 3, 4>>, <<1, 4, 3>>, <<1, 1, 2>>}

TriangleLists ==
  UNION {[1..k -> TriangleChoices] : k \in 0..MaxTriangles}
  \cup UNION {[1..k -> {<<1, 2, 3>>, <<3, 2, 1>>}] : k \in 3..MaxLayers}

\* No sewing line, a seam between two vertices, a line from a vertex to itself.
SewingChoices == {<< >>, << <<1, 3>> >>, << <<2, 2>> >>}

\* The meshes handed to the constructor: every index names a vertex.
Meshes ==
  {m \in [vertices : {SubSeq(MeshVertices, 1, n) : n \in 3..Len(MeshVertices)},
          triangles : TriangleLists,
          sewingLines : SewingChoices] :
     \A i \in 1..Len(m.triangles) : \A k \in 1..3 : m.triangles[i][k] <= Len(m.vertices)}

\* A b3ClothDef with its mesh, the cloth not built yet.
InitMesh ==
  /\ m_mesh \in Meshes
  /\ m_vertexParticles = << >>
  /\ m_particleList = << >>
  /\ particles = << >>
  /\ m_forceList = << >>
  /\ m_world = FALSE
  /\ m_gravity = Vec3_zero
  /\ b3_clothSolverIterations = 0
  /\ asserts \in BOOLEAN
  /\ fault = FALSE
  /\ solver = Idle
  /\ last = [NoOp EXCEPT !.op = "b3ClothDef"]
  /\ budget = 0

\* The edge buffers hold 3 * triangleCount records each.
EdgeBufferHolds(m) ==
  /\ Len(b3FindUniqueEdges(m)) <= 3 * Len(m.triangles)
  /\ Len(b3FindSharedEdges(m)) <= 3 * Len(m.triangles)

\* b3Cloth::b3Cloth.  An assertion of ComputeMass that fails ends the
\* construction; records written past the end of an edge buffer leave the
\* build either running on or faulting.
Construct ==
  /\ last.op = "b3ClothDef"
  /\ ~fault
  /\ IF asserts /\ ~ComputeMassAsserts(m_mesh, ClothDensity)
     THEN /\ fault' = TRUE
          /\ UNCHANGED <<m_vertexParticles, m_particleList, particles, m_forceList, last>>
     ELSE /\ fault' \in (IF EdgeBufferHolds(m_mesh) THEN {FALSE} ELSE BOOLEAN)
          /\ m_vertexParticles' = Tuple([i \in 1..Len(m_mesh.vertices) |-> i])
          /\ m_particleList' = Reverse(Tuple([i \in 1..Len(m_mesh.vertices) |-> i]))
          /\ particles' = Tuple([i \in 1..Len(m_mesh.vertices) |->
                                   CreateParticle(m_mesh, ClothDensity, i)])
          /\ m_forceList' = Reverse(CreatedForces(m_mesh))
          /\ last' = NoOp
  /\ UNCHANGED <<m_mesh, m_world, m_gravity, b3_clothSolverIterations, asserts, solver, budget>>

\* b3Cloth::DestroyParticle: the entry of the vertex table cleared, the
\* particle unlinked, destroyed and its block returned to the pool.
DestroyParticle(p) ==
  /\ last.op # "b3ClothDef"
  /\ ~fault
  /\ InList(m_particleList, p)
  /\ m_vertexParticles' =
       IF particles[p].m_vertex # 0
       THEN [m_vertexParticles EXCEPT ![particles[p].m_vertex] = 0]
       ELSE m_vertexParticles
  /\ m_particleList' = LET Other(id) == id # p IN SelectSeq(m_particleList, Other)
  /\ last' = [NoOp EXCEPT !.op = "DestroyParticle", !.p = p, !.before = particles]
  /\ UNCHANGED <<m_mesh, particles, m_forceList, m_world, m_gravity,
                 b3_clothSolverIterations, asserts, fault, solver, budget>>

NextMesh ==
  \/ Construct
  \/ \E p \in 1..Len(MeshVertices) : DestroyParticle(p)

SpecMesh == InitMesh /\ [][NextMesh]_vars

\* ------------------------------------------------------------------------
\* b3ClothSolver::Solve(dt, gravity), one phase at a time
\* ------------------------------------------------------------------------

\* The phases of b3ClothSolver::Solve(dt, gravity) in the order of its
\* statements.
SolvePhases ==
  <<"Gather", "CorrectPositions", "InitializeForces", "ApplyForces", "InitializeConstraints",
    "Compute_S_z", "Compute_A_b", "Solve", "Scatter">>

\* The linear system assembled ahead of the constraint projector.
NextPhase_SystemFirst(done) ==
  <<"Gather", "CorrectPositions", "InitializeForces", "ApplyForces", "InitializeConstraints",
    "Compute_A_b", "Compute_S_z", "Solve", "Scatter">>[Len(done) + 1]

\* The phase the call runs once the phases of done have run.
NextPhase(done) == SolvePhases[Len(done) + 1]

\* The solver at the entry of Solve(dt, gravity): the particles and contacts
\* added by b3Cloth::Solve, the state buffers sized, the Jacobians zeroed.
\* The buffers declared further down (S, z, A, b, x) hold what their
\* construction or the head of their phase gives them.
SolveEntry(ps, list, dt, resp) ==
  [pc          |-> "solve",
   done        |-> << >>,
   dt          |-> dt,
   resp        |-> resp,
   particles   |-> ps,
   contacts    |-> SolverContacts(ps, list),
   sx          |-> DenseZero(Len(list)),
   sv          |-> DenseZero(Len(list)),
   sf          |-> DenseZero(Len(list)),
   sy          |-> DenseZero(Len(list)),
   sx0         |-> DenseZero(Len(list)),
   dfdx        |-> SymZero(Len(list)),
   dfdv        |-> SymZero(Len(list)),
   fresp       |-> Slack,
   constraints |-> << >>,
   S           |-> DiagIdentity(Len(list)),
   z           |-> DenseZero(Len(list)),
   A           |-> SymZero(Len(list)),
   b           |-> DenseZero(Len(list)),
   x           |-> DenseZero(Len(list)),
   iterations  |-> 0,
   failed      |-> FALSE]

\* The solver after phase ph has run on the solver s.
PhaseEffect(s, ph, list, forces, gravity, withAsserts) ==
  CASE ph = "Gather" ->
         [s EXCEPT !.sx  = Tuple([i \in 1..Len(list) |-> s.particles[list[i]].m_position]),
                   !.sv  = Tuple([i \in 1..Len(list) |-> s.particles[list[i]].m_velocity]),
                   !.sf  = Gather_sf(s.particles, list, gravity),
                   !.sy  = Tuple([i \in 1..Len(list) |-> s.particles[list[i]].m_translation]),
                   !.sx0 = Tuple([i \in 1..Len(list) |-> s.particles[list[i]].m_x])]
    [] ph = "CorrectPositions" ->
         [s EXCEPT !.sy = CorrectPositions(s.particles, s.contacts, 1, s.sy)]
    [] ph = "InitializeForces" ->
         [s EXCEPT !.fresp = s.resp]
    [] ph = "ApplyForces" ->
         [s EXCEPT !.sf   = ApplyForces(s.particles, forces, s.fresp, 1, s.sf),
                   !.dfdx = ApplyJacobians(s.particles, forces, s.fresp.ks, 1, s.dfdx),
                   !.dfdv = ApplyJacobians(s.particles, forces, s.fresp.kd, 1, s.dfdv)]
    [] ph = "InitializeConstraints" ->
         [s EXCEPT !.constraints = InitializeConstraints(s.particles, list, s.contacts)]
    [] ph = "Compute_S_z" ->
         The({[s EXCEPT !.S = Sz.S, !.z = Sz.z] :
                Sz \in {Compute_S_z(s.constraints, 1,
                                    [S |-> DiagIdentity(Len(list)), z |-> DenseZero(Len(list))])}})
    [] ph = "Compute_A_b" ->
         [s EXCEPT !.A = Compute_A[Tuple([i \in 1..Len(list) |-> s.particles[list[i]].m_mass]),
                                   s.dfdx, s.dfdv, s.dt],
                   !.b = Compute_b[s.dfdx, s.sf, s.sv, s.sy, s.dt]]
    [] ph = "Solve" ->
         The({[s EXCEPT !.x = solved.st.x, !.iterations = solved.st.iteration,
                        !.failed = solved.fault] :
                solved \in {MPCG_Solve(s.A, s.b, s.S, s.z, s.sx0, withAsserts)}})
    [] ph = "Scatter" ->
         [s EXCEPT !.particles = Scatter(s, list, s.x)]

\* The cloth inside b3Cloth::Solve at the call of solver.Solve(dt, gravity),
\* with springs of a physical response, in a debug or a release build.
InitPhases ==
  /\ m_mesh = ClothMesh
  /\ m_vertexParticles = Tuple([i \in 1..Len(ClothMesh.vertices) |-> i])
  /\ m_particleList = Reverse(Tuple([i \in 1..Len(ClothMesh.vertices) |-> i]))
  /\ m_forceList = Reverse(CreatedForces(ClothMesh))
  /\ \E types \in [Particles -> ParticleTypes], case \in SolverCases,
        outputs \in ContactScenes :
       /\ PhysicalSpring(case[1])
       /\ particles =
            AssignSolverIds(
              UpdateBodyContacts(
                Tuple([i \in Particles |->
                         Prepared(i, types[i], IF i = 1 THEN case[2] ELSE <<FALSE, FALSE>>)]),
                m_particleList, TRUE, outputs),
              m_particleList)
       /\ solver = SolveEntry(particles, m_particleList, One, case[1])
       /\ last = [NoOp EXCEPT !.op = "Step", !.dt = One, !.outputs = outputs,
                              !.resp = case[1], !.solved = TRUE, !.before = particles]
  /\ m_world = TRUE
  /\ m_gravity \in Gravities
  /\ b3_clothSolverIterations = 0
  /\ asserts \in BOOLEAN
  /\ fault = FALSE
  /\ budget = 0

\* The next phase of the call; the call returns after the last one, and an
\* assertion that fails in MPCG ends the program.
SolvePhase ==
  /\ solver.pc = "solve"
  /\ \E s \in {PhaseEffect(solver, NextPhase(solver.done), m_particleList, m_forceList,
                           m_gravity, asserts)} :
       /\ solver' = [s EXCEPT !.done = Append(solver.done, NextPhase(solver.done)),
                              !.pc = IF s.failed THEN "fault"
                                     ELSE IF Len(solver.done) + 1 = Len(SolvePhases) THEN "return"
                                     ELSE "solve"]
       /\ fault' = s.failed
       /\ particles' = s.particles
       /\ b3_clothSolverIterations' = s.iterations
  /\ UNCHANGED <<m_mesh, m_vertexParticles, m_particleList, m_forceList, m_world, m_gravity,
                 asserts, last, budget>>

NextPhases == SolvePhase

SpecPhases == InitPhases /\ [][NextPhases]_vars

\* ------------------------------------------------------------------------
\* Properties
\* ------------------------------------------------------------------------

\* A particle that carries a constraint with no degree of freedom.
ZeroDof(pt) ==
  \/ pt.m_type # "e_dynamicParticle"
  \/ /\ pt.m_bodyContact.active
     /\ pt.m_bodyContact.t1_active
     /\ pt.m_bodyContact.t2_active

QuietStep ==
  /\ last.op = "Step"
  /\ ~fault
  /\ m_gravity = Vec3_zero
  /\ \A id \in Particles : last.before[id].m_force = Vec3_zero

\* C2 as stated: a step without external force and gravity leaves the
\* position and the velocity of every static particle unchanged, the velocity
\* of every kinematic particle unchanged and moves a kinematic particle by dt
\* times its velocity only.
C2_PinnedParticlesUnmoved ==
  QuietStep =>
    \A id \in Particles :
      /\ last.before[id].m_type = "e_staticParticle" =>
           /\ particles[id].m_position = last.before[id].m_position
           /\ particles[id].m_velocity = last.before[id].m_velocity
      /\ last.before[id].m_type = "e_kinematicParticle" =>
           /\ particles[id].m_velocity = last.before[id].m_velocity
           /\ particles[id].m_position =
                VAdd[last.before[id].m_position,
                     VScale[last.dt, last.before[id].m_velocity]]

\* C2, amended: a step without external force and gravity leaves the velocity
\* of every static and kinematic particle unchanged; with dt > 0 it moves the
\* particle by dt times its velocity plus its pending translation, with
\* dt = 0 it leaves the position unchanged.
C2_PinnedParticlesMoveByTranslation ==
  QuietStep =>
    \A id \in Particles :
      last.before[id].m_type # "e_dynamicParticle" =>
        /\ particles[id].m_velocity = last.before[id].m_velocity
        /\ particles[id].m_position =
             IF last.solved
             THEN VAdd[VAdd[last.before[id].m_position,
                            VScale[last.dt, last.before[id].m_velocity]],
                       last.before[id].m_translation]
             ELSE last.before[id].m_position

\* A solved step, the springs taut, that has moved a static particle by its
\* pending translation.
C2_Witness ==
  /\ QuietStep
  /\ last.solved
  /\ last.resp = Taut
  /\ \E id \in Particles :
       /\ last.before[id].m_type = "e_staticParticle"
       /\ last.before[id].m_translation # Vec3_zero
       /\ particles[id].m_position # last.before[id].m_position

\* C3: the main loop of MPCG never counts more than max_iterations passes; at
\* the cap the next thing that happens is the return of the iterate, which is
\* cached in the particles, with the count reported and no fault; and every
\* solve ends, by a return or by a failed assertion.
C3_MPCGTerminates ==
  /\ [](solver.pc \in {"loop", "return"} => solver.st.iteration <= max_iterations)
  /\ [](solver.pc = "return" => b3_clothSolverIterations <= max_iterations)
  /\ [][(solver.pc = "loop" /\ solver.st.iteration = max_iterations) =>
          /\ solver'.pc = "return"
          /\ ~fault'
          /\ b3_clothSolverIterations' = max_iterations
          /\ \A id \in Particles :
               particles'[id].m_x = solver.st.x[particles[id].m_solverId + 1]]_vars
  /\ <>(solver.pc \in {"return", "fault"})

\* A solve that has returned from the cap.
C3_Witness ==
  /\ solver.pc = "return"
  /\ b3_clothSolverIterations = max_iterations
  /\ ~Converged(solver.st)
  /\ ~fault

\* C4: when Step returns, whatever dt is, every particle has no pending
\* force and no pending translation.
C4_StepClearsForcesAndTranslations ==
  (last.op = "Step" /\ ~fault) =>
    \A id \in Particles :
      /\ particles[id].m_force = Vec3_zero
      /\ particles[id].m_translation = Vec3_zero

\* A step with dt = 0 that found a pending force and a pending translation.
C4_Witness ==
  /\ last.op = "Step"
  /\ ~fault
  /\ ~last.solved
  /\ \E id \in Particles : last.before[id].m_force # Vec3_zero
  /\ \E id \in Particles : last.before[id].m_translation # Vec3_zero

\* What a refresh writes in a contact.
RefreshedFields(c) ==
  <<c.active, c.s2, c.n, c.t1, c.t2, c.normalImpulse, c.tangentImpulse>>

\* C5: a step with dt = 0 builds no solver and leaves position, velocity and
\* cached solution of every particle as they were, and leaves the contacts as
\* a step with dt > 0 from the same state refreshes them.
C5_ZeroStepOnlyRefreshes ==
  (last.op = "Step" /\ last.dt = Zero) =>
    /\ ~last.solved
    /\ ~fault
    /\ \A id \in Particles :
         /\ particles[id].m_position = last.before[id].m_position
         /\ particles[id].m_velocity = last.before[id].m_velocity
         /\ particles[id].m_x = last.before[id].m_x
         /\ particles[id].m_solverId = last.before[id].m_solverId
    /\ \E positive \in {StepOf(last.before, m_particleList, m_forceList, m_world,
                               last.outputs, m_gravity, One, last.resp, asserts)} :
         \A id \in Particles :
           RefreshedFields(particles[id].m_bodyContact) =
             RefreshedFields(positive.particles[id].m_bodyContact)

\* A step with dt = 0 on a cloth in motion that has activated a contact.
C5_Witness ==
  /\ last.op = "Step"
  /\ last.dt = Zero
  /\ m_world
  /\ \E id \in Particles :
       /\ last.before[id].m_velocity # Vec3_zero
       /\ last.before[id].m_x # Vec3_zero
       /\ ~last.before[id].m_bodyContact.active
       /\ particles[id].m_bodyContact.active

\* The slots of ShapeOrder whose shape belongs to a static body and
\* penetrates the sphere.
StaticHits(outputs) ==
  {k \in 1..Len(ShapeOrder) :
     /\ ShapeOrder[k].bodyType = "e_staticBody"
     /\ outputs[ShapeOrder[k].shape].hit
     /\ FLt(outputs[ShapeOrder[k].shape].separation, Zero)}

\* The first of the deepest of them.
FirstDeepest(outputs) ==
  CHOOSE k \in StaticHits(outputs) :
    \A j \in StaticHits(outputs) :
      \/ FLt(outputs[ShapeOrder[k].shape].separation, outputs[ShapeOrder[j].shape].separation)
      \/ /\ outputs[ShapeOrder[k].shape].separation = outputs[ShapeOrder[j].shape].separation
         /\ k <= j

\* C6: after a refresh in a world the contact of a dynamic particle is active
\* exactly when a shape of a static body penetrates its sphere, and it then
\* records the first of the deepest of these shapes; the contact of every
\* other particle is inactive.
C6_DeepestStaticShapeRecorded ==
  (last.op = "Step" /\ m_world) =>
    \A id \in Particles :
      IF last.before[id].m_type = "e_dynamicParticle"
      THEN /\ particles[id].m_bodyContact.active <=> StaticHits(last.outputs) # {}
           /\ particles[id].m_bodyContact.active =>
                /\ particles[id].m_bodyContact.s2 =
                     ShapeOrder[FirstDeepest(last.outputs)].shape
                /\ \A k \in 1..Len(ShapeOrder) :
                     ShapeOrder[k].shape = particles[id].m_bodyContact.s2 =>
                       ShapeOrder[k].bodyType = "e_staticBody"
      ELSE ~particles[id].m_bodyContact.active

\* A refresh with the two static shapes equally deep and the shape of the
\* dynamic body deeper, over a dynamic particle and over a particle that is
\* not dynamic and whose contact was active.
C6_Witness ==
  /\ last.op = "Step"
  /\ m_world
  /\ last.outputs = [NoScene EXCEPT ![1] = Hit(0 - 2), ![2] = Hit(0 - 1), ![3] = Hit(0 - 1)]
  /\ \E id \in Particles :
       /\ last.before[id].m_type = "e_dynamicParticle"
       /\ particles[id].m_bodyContact.s2 = 2
  /\ \E id \in Particles :
       /\ last.before[id].m_type = "e_kinematicParticle"
       /\ last.before[id].m_bodyContact.active
       /\ ~particles[id].m_bodyContact.active

\* C7: a contact that a refresh leaves active keeps the accumulated impulses
\* of the record before the refresh if that was active, and starts with zero
\* impulses if it was not.
C7_ImpulsesCarriedOver ==
  (last.op = "Step" /\ m_world) =>
    \A id \in Particles :
      particles[id].m_bodyContact.active =>
        IF last.before[id].m_bodyContact.active
        THEN /\ particles[id].m_bodyContact.normalImpulse =
                  last.before[id].m_bodyContact.normalImpulse
             /\ particles[id].m_bodyContact.tangentImpulse =
                  last.before[id].m_bodyContact.tangentImpulse
        ELSE /\ particles[id].m_bodyContact.normalImpulse = Zero
             /\ particles[id].m_bodyContact.tangentImpulse = <<Zero, Zero>>

\* A refresh that has kept the impulses of an active contact.
C7_Witness ==
  /\ last.op = "Step"
  /\ m_world
  /\ \E id \in Particles :
       /\ last.before[id].m_bodyContact.active
       /\ last.before[id].m_bodyContact.normalImpulse # Zero
       /\ last.before[id].m_bodyContact.tangentImpulse # <<Zero, Zero>>
       /\ particles[id].m_bodyContact.active
       /\ particles[id].m_bodyContact.normalImpulse # Zero

\* C8 as stated: a contact that a refresh leaves inactive holds zero
\* accumulated impulses.
C8_ImpulsesDiscardedAtDeactivation ==
  (last.op = "Step" /\ m_world) =>
    \A id \in Particles :
      ~particles[id].m_bodyContact.active =>
        /\ particles[id].m_bodyContact.normalImpulse = Zero
        /\ particles[id].m_bodyContact.tangentImpulse = <<Zero, Zero>>

\* C9: SetType to static from another type leaves the particle with zero
\* velocity, zero pending translation and an inactive contact; SetType to the
\* type the particle has leaves the particle and its contact as they were.
C9_SetTypeToStatic ==
  last.op = "SetType" =>
    IF last.before[last.p].m_type = last.type
    THEN particles[last.p] = last.before[last.p]
    ELSE /\ particles[last.p].m_type = last.type
         /\ last.type = "e_staticParticle" =>
              /\ particles[last.p].m_velocity = Vec3_zero
              /\ particles[last.p].m_translation = Vec3_zero
              /\ ~particles[last.p].m_bodyContact.active

\* SetType to static of a moving particle with a pending translation and an
\* active contact.
C9_Witness ==
  /\ last.op = "SetType"
  /\ last.type = "e_staticParticle"
  /\ last.before[last.p].m_type # "e_staticParticle"
  /\ last.before[last.p].m_velocity # Vec3_zero
  /\ last.before[last.p].m_translation # Vec3_zero
  /\ last.before[last.p].m_bodyContact.active

\* C10: SetVelocity leaves a static particle as it was and overwrites the
\* velocity of any other; ApplyForce leaves a static or kinematic particle as
\* it was and adds to the pending force of a dynamic one.
C10_RejectedInputsAreNoOps ==
  /\ last.op = "SetVelocity" =>
       particles[last.p] =
         IF last.before[last.p].m_type = "e_staticParticle"
         THEN last.before[last.p]
         ELSE [last.before[last.p] EXCEPT !.m_velocity = last.arg]
  /\ last.op = "ApplyForce" =>
       particles[last.p] =
         IF last.before[last.p].m_type \in {"e_staticParticle", "e_kinematicParticle"}
         THEN last.before[last.p]
         ELSE [last.before[last.p] EXCEPT !.m_force = VAdd[@, last.arg]]

\* SetVelocity on a static particle, after it was accepted on another one.
C10_Witness ==
  /\ last.op = "SetVelocity"
  /\ last.arg # Vec3_zero
  /\ last.before[last.p].m_type = "e_staticParticle"
  /\ particles[last.p].m_velocity = Vec3_zero
  /\ \E id \in Particles : particles[id].m_velocity = last.arg

\* The cloth as the constructor has left it.
Built == last.op = "b3Cloth" /\ solver = Idle /\ ~fault

\* The directed edge e of the triangle list, e = 3 * triangle + corner.
DirectedEdge(m, e) ==
  <<m.triangles[(e \div 3) + 1][(e % 3) + 1],
    m.triangles[(e \div 3) + 1][(((e % 3) + 1) % 3) + 1]>>

SameEdge(a, b) == a = b \/ (a[1] = b[2] /\ a[2] = b[1])

\* The directed edges that no earlier directed edge equals in either order.
FirstEncounters(m) ==
  {e \in 0..(3 * Len(m.triangles) - 1) :
     \A f \in 0..(e - 1) : ~SameEdge(DirectedEdge(m, f), DirectedEdge(m, e))}

\* C11: the unique-edge scan returns no edge twice in either order, returns
\* every triangle edge in one of the two orders, returns the edges in the
\* direction and at the position of their first encounter, and returns at
\* most 3 * triangleCount edges.
C11_UniqueEdgesOnce ==
  Built =>
    LET U  == b3FindUniqueEdges(m_mesh)
        FE == FirstEncounters(m_mesh)
    IN /\ \A j \in 1..Len(U) : \A k \in 1..Len(U) :
            j # k => ~SameEdge(<<U[j].v1, U[j].v2>>, <<U[k].v1, U[k].v2>>)
       /\ \A e \in 0..(3 * Len(m_mesh.triangles) - 1) :
            \E k \in 1..Len(U) : SameEdge(DirectedEdge(m_mesh, e), <<U[k].v1, U[k].v2>>)
       /\ Len(U) = Cardinality(FE)
       /\ \A e \in FE :
            <<U[Cardinality({f \in FE : f < e}) + 1].v1,
              U[Cardinality({f \in FE : f < e}) + 1].v2>> = DirectedEdge(m_mesh, e)
       /\ Len(U) <= 3 * Len(m_mesh.triangles)

\* The quad built: two triangles that meet at one edge, five edges found.
C11_Witness ==
  /\ Built
  /\ m_mesh.triangles = << <<1, 2, 3>>, <<1, 3, 4>> >>
  /\ Len(b3FindUniqueEdges(m_mesh)) = 5
  /\ Len(m_forceList) >= 6

\* The corner of its triangle that directed edge e does not start or end at.
OppositeCorner(m, e) == m.triangles[(e \div 3) + 1][(((e % 3) + 2) % 3) + 1]

\* The directed edges of triangle j that run against directed edge e.
AgainstEdge(m, e, j) ==
  {f \in (3 * (j - 1))..(3 * (j - 1) + 2) :
     DirectedEdge(m, f) = <<DirectedEdge(m, e)[2], DirectedEdge(m, e)[1]>>}

\* The pairs of a directed edge e and a later triangle j that holds e reversed.
ReversedPairs(m) ==
  {x \in (0..(3 * Len(m.triangles) - 1)) \X (1..Len(m.triangles)) :
     x[2] > (x[1] \div 3) + 1 /\ AgainstEdge(m, x[1], x[2]) # {}}

\* C12: the shared-edge scan emits one record for each directed edge of a
\* triangle and each later triangle that holds the edge reversed, and no
\* other record; the record holds the edge and the corners of the two
\* triangles opposite to it.  For the quad it emits the one record of the
\* diagonal with the two outer corners.
C12_SharedEdgesOfOppositeWinding ==
  Built =>
    LET Sh == b3FindSharedEdges(m_mesh)
        RP == ReversedPairs(m_mesh)
        Rank(x) == Cardinality({y \in RP : y[1] < x[1] \/ (y[1] = x[1] /\ y[2] < x[2])}) + 1
    IN /\ Len(Sh) = Cardinality(RP)
       /\ \A x \in RP :
            /\ <<Sh[Rank(x)].v1, Sh[Rank(x)].v2>> = DirectedEdge(m_mesh, x[1])
            /\ Sh[Rank(x)].nsv1 = OppositeCorner(m_mesh, x[1])
            /\ \E f \in AgainstEdge(m_mesh, x[1], x[2]) :
                 Sh[Rank(x)].nsv2 = OppositeCorner(m_mesh, f)
       /\ m_mesh.triangles = << <<1, 2, 3>>, <<1, 3, 4>> >> =>
            Sh = << [v1 |-> 3, v2 |-> 1, nsv1 |-> 2, nsv2 |-> 4] >>

\* The quad built, with the bending spring between its two outer corners.
C12_Witness ==
  /\ Built
  /\ m_mesh.triangles = << <<1, 2, 3>>, <<1, 3, 4>> >>
  /\ Len(b3FindSharedEdges(m_mesh)) = 1
  /\ \E k \in 1..Len(m_forceList) :
       m_forceList[k] = [m_p1 |-> 2, m_p2 |-> 4, kind |-> "bending"]

\* The k-th force the constructor created: the list holds the newest first.
CreatedForce(k) == m_forceList[Len(m_forceList) + 1 - k]

\* C13: the constructor leaves one dynamic particle per mesh vertex at the
\* position of the vertex, and one spring force per unique edge between its
\* endpoints, per shared edge between its opposite vertices and per sewing
\* line between its vertices, and no other force.
C13_ParticlesAndSpringsOfTheMesh ==
  Built =>
    LET U  == b3FindUniqueEdges(m_mesh)
        Sh == b3FindSharedEdges(m_mesh)
        Sw == m_mesh.sewingLines
    IN /\ Len(particles) = Len(m_mesh.vertices)
       /\ Len(m_particleList) = Len(m_mesh.vertices)
       /\ \A i \in 1..Len(m_mesh.vertices) :
            /\ InList(m_particleList, i)
            /\ m_vertexParticles[i] = i
            /\ particles[i].m_vertex = i
            /\ particles[i].m_type = "e_dynamicParticle"
            /\ particles[i].m_position = m_mesh.vertices[i]
       /\ Len(m_forceList) = Len(U) + Len(Sh) + Len(Sw)
       /\ \A k \in 1..Len(U) :
            <<CreatedForce(k).m_p1, CreatedForce(k).m_p2>> = <<U[k].v1, U[k].v2>>
       /\ \A k \in 1..Len(Sh) :
            <<CreatedForce(Len(U) + k).m_p1, CreatedForce(Len(U) + k).m_p2>> =
              <<Sh[k].nsv1, Sh[k].nsv2>>
       /\ \A k \in 1..Len(Sw) :
            <<CreatedForce(Len(U) + Len(Sh) + k).m_p1,
              CreatedForce(Len(U) + Len(Sh) + k).m_p2>> = <<Sw[k][1], Sw[k][2]>>

\* The quad with a seam built in a build with assertions: four particles,
\* five structural springs, one bending spring, one sewing spring.
C13_Witness ==
  /\ Built
  /\ asserts
  /\ m_mesh.triangles = << <<1, 2, 3>>, <<1, 3, 4>> >>
  /\ m_mesh.sewingLines = << <<1, 3>> >>
  /\ Len(particles) = 4
  /\ Len(m_forceList) = 7

\* The mesh passes the assertions of the constructor: every triangle has a
\* positive area, every particle a positive mass.
Accepted == ComputeMassAsserts(m_mesh, ClothDensity)

\* C14 as stated: no spring force the constructor creates from a mesh it
\* accepts has the same particle at both ends.
C14_NoSpringToItself ==
  (Built /\ Accepted) =>
    \A k \in 1..Len(m_forceList) : m_forceList[k].m_p1 # m_forceList[k].m_p2

\* The sum of the first k floats of a sequence.
RECURSIVE FloatSum(_, _)
FloatSum(q, k) == IF k = 0 THEN Zero ELSE FAdd[FloatSum(q, k - 1), q[k]]

\* Every triangle of the mesh has a positive area.
PositiveAreas ==
  \A i \in 1..Len(m_mesh.triangles) : FLt(Zero, TriangleArea(m_mesh, i))

\* The masses of the particles add up to the density times the area of the mesh.
MassIsDensityTimesArea ==
  FloatSum([i \in 1..Len(particles) |-> particles[i].m_mass], Len(particles)) =
    FMul[ClothDensity,
         FloatSum([i \in 1..Len(m_mesh.triangles) |-> TriangleArea(m_mesh, i)],
                  Len(m_mesh.triangles))]

\* C15 as stated: after the construction from a mesh whose triangles have a
\* positive area the masses of the particles add up to the density times the
\* area of the mesh, and every particle has a positive mass, a particle whose
\* vertex belongs to no triangle included.
C15_MassConservedAndPositive ==
  (Built /\ PositiveAreas) =>
    /\ MassIsDensityTimesArea
    /\ \A i \in 1..Len(particles) : FLt(Zero, particles[i].m_mass)

\* C16 as stated: after DestroyParticle no force of the force list has the
\* removed particle at an end, the particle is in the particle list no
\* more (so its contact record is used no more), and the vertex table holds
\* no pointer to it.
C16_RemovedParticleUnreferenced ==
  last.op = "DestroyParticle" =>
    /\ \A k \in 1..Len(m_forceList) :
         m_forceList[k].m_p1 # last.p /\ m_forceList[k].m_p2 # last.p
    /\ ~InList(m_particleList, last.p)
    /\ \A v \in 1..Len(m_vertexParticles) : m_vertexParticles[v] # last.p

\* The solver is inside Solve(dt, gravity) or has left it.
InSolve == solver.pc \in {"solve", "return", "fault"} /\ "done" \in DOMAIN solver

\* The phases of done are the first phases of order, each once; a call that
\* has returned has run them all.
RanInOrder(order) ==
  /\ Len(solver.done) <= Len(order)
  /\ solver.done = SubSeq(order, 1, Len(solver.done))
  /\ solver.pc = "return" => Len(solver.done) = Len(order)

\* C17 as stated: within one Solve call the phases run once each in the
\* order gather, contact position bias, force initialization, force
\* application, constraint assembly, assembly of A and b, construction of
\* S and z, MPCG, scatter and caching.
C17_PhasesInStatedOrder ==
  InSolve =>
    RanInOrder(<<"Gather", "CorrectPositions", "InitializeForces", "ApplyForces",
                 "InitializeConstraints", "Compute_A_b", "Compute_S_z", "Solve", "Scatter">>)

\* C17 amended: within one Solve call the phases run once each in the order
\* gather, contact position bias, force initialization, force application,
\* constraint assembly, construction of S and z, assembly of A and b, MPCG,
\* scatter and caching; none is skipped or runs before an earlier one.
C17_PhasesInCodeOrder ==
  InSolve =>
    RanInOrder(<<"Gather", "CorrectPositions", "InitializeForces", "ApplyForces",
                 "InitializeConstraints", "Compute_S_z", "Compute_A_b", "Solve", "Scatter">>)

\* A call with an active contact and a pinned particle has returned.
C17_Witness ==
  /\ InSolve
  /\ solver.pc = "return"
  /\ Len(solver.done) = 9
  /\ solver.contacts # << >>
  /\ \E c \in 1..Len(solver.constraints) : solver.constraints[c].ndof = 0
  /\ solver.iterations > 0

\* Constraint assembly has run in the call.
ConstraintsAssembled ==
  InSolve /\ \E k \in 1..Len(solver.done) : solver.done[k] = "InitializeConstraints"

\* The number of engaged tangents of the contact bc.
EngagedTangents(bc) ==
  (IF bc.t1_active THEN 1 ELSE 0) + (IF bc.t2_active THEN 1 ELSE 0)

\* ac is the constraint assembly owes the active contact bc of the particle
\* in slot i.
ConstrainsContact(ac, i, bc) ==
  /\ ac.i1 = i
  /\ ac.p = bc.n
  /\ ac.z = Vec3_zero
  /\ ac.ndof = 2 - EngagedTangents(bc)
  /\ (bc.t1_active /\ ~bc.t2_active) => ac.q = bc.t1
  /\ (bc.t2_active /\ ~bc.t1_active) => ac.q = bc.t2

\* C18: constraint assembly gives every non-dynamic particle a constraint
\* with 0 degrees of freedom and z = 0, and every active contact a constraint
\* on its particle along the contact normal with 2 minus the number of
\* engaged tangents degrees of freedom, the second restricted direction being
\* the engaged tangent when exactly one is engaged.
C18_ConstraintsOfPinsAndContacts ==
  ConstraintsAssembled =>
    \A id \in Particles :
      /\ solver.particles[id].m_type # "e_dynamicParticle" =>
           \E c \in 1..Len(solver.constraints) :
             /\ solver.constraints[c].i1 = solver.particles[id].m_solverId
             /\ solver.constraints[c].ndof = 0
             /\ solver.constraints[c].z = Vec3_zero
      /\ solver.particles[id].m_bodyContact.active =>
           \E c \in 1..Len(solver.constraints) :
             ConstrainsContact(solver.constraints[c], solver.particles[id].m_solverId,
                               solver.particles[id].m_bodyContact)

\* Constraint assembly has run on a cloth with a pinned particle and an
\* active contact whose second tangent alone is engaged.
C18_Witness ==
  /\ ConstraintsAssembled
  /\ \E id \in Particles : solver.particles[id].m_type = "e_kinematicParticle"
  /\ \E id \in Particles :
       /\ solver.particles[id].m_bodyContact.active
       /\ solver.particles[id].m_bodyContact.t2_active
       /\ ~solver.particles[id].m_bodyContact.t1_active
       /\ solver.particles[id].m_bodyContact.t2 # solver.particles[id].m_bodyContact.t1
       /\ \E c \in 1..Len(solver.constraints) :
            /\ solver.constraints[c].ndof = 1
            /\ solver.constraints[c].q = solver.particles[id].m_bodyContact.t2

\* C19: in every reachable state every static or kinematic particle has
\* inverse mass 0 and every dynamic particle has inverse mass 1 / mass.
C19_InverseMassByType ==
  \A id \in Particles :
    /\ particles[id].m_type # "e_dynamicParticle" => particles[id].m_invMass = Zero
    /\ particles[id].m_type = "e_dynamicParticle" =>
         particles[id].m_invMass = FDiv[One, particles[id].m_mass]

\* C20: for every mesh the constructor accepts, the meshes with more than two
\* triangles at one edge included, the shared-edge scan writes no more
\* records than 3 times the triangle count, the size of its buffer.
C20_SharedEdgesFitBuffer ==
  (last.op = "b3Cloth" /\ solver = Idle /\ Accepted) =>
    Len(b3FindSharedEdges(m_mesh)) <= 3 * Len(m_mesh.triangles)

\* The particles the solve of the last step was handed: refreshed, in their
\* slots.
StepParticles ==
  AssignSolverIds(UpdateBodyContacts(last.before, m_particleList, m_world, last.outputs),
                  m_particleList)

\* The contacts and the constraints of the solve of the last step.
StepContacts == SolverContacts(StepParticles, m_particleList)

StepConstraints == InitializeConstraints(StepParticles, m_particleList, StepContacts)

\* C21: in every solve started by Step each particle receives at most one
\* acceleration constraint (no particle pinned as non-dynamic has an active
\* contact handed to the solver), so the constraints fit the constraint
\* buffer, whose capacity is the particle count, and no block of S is written
\* twice; the contacts handed to the solver fit the particle count as well.
C21_OneConstraintPerParticle ==
  (last.op = "Step" /\ last.solved) =>
    /\ \A id \in 1..Len(StepParticles) :
         (InList(m_particleList, id) /\ StepParticles[id].m_type # "e_dynamicParticle")
           => ~StepParticles[id].m_bodyContact.active
    /\ \A c1, c2 \in 1..Len(StepConstraints) :
         c1 # c2 => StepConstraints[c1].i1 # StepConstraints[c2].i1
    /\ Len(StepConstraints) <= Len(m_particleList)
    /\ Len(StepContacts) <= Len(m_particleList)

\* A step solved a cloth whose first particle had been made kinematic with
\* its contact still active, while a shape touched the dynamic particles:
\* the solve got a pin and a contact constraint.
C21_Witness ==
  /\ last.op = "Step"
  /\ last.solved
  /\ last.before[1].m_type = "e_kinematicParticle"
  /\ last.before[1].m_bodyContact.active
  /\ StepContacts # << >>
  /\ \E c \in 1..Len(StepConstraints) : StepConstraints[c].ndof = 0
  /\ \E c \in 1..Len(StepConstraints) : StepConstraints[c].ndof = 2

====
